---- MODULE Spec2Model ----
(***************************************************************************)
(* A model of the two cores of DADApy covered by the specification:        *)
(*   - the differentiable information imbalance trainer                    *)
(*     (dadapy/diff_imbalance.py, class DiffImbalance), and                *)
(*   - the BMTI density pipeline                                           *)
(*     (dadapy/density_advanced.py, class DensityAdvanced).                *)
(*                                                                         *)
(* Numbers.  Feature weights and learning rates are fixed-point integers   *)
(* in thousandths (0.1 is 100).  The value of the objective and its error  *)
(* are kept as terms [kind, params, step]: the value of the DII ("imb") or *)
(* of its standard error ("err") evaluated with the weights `params` at    *)
(* optimizer step `step`; the two kinds are different numbers.  The update *)
(* the optax optimizer computes from the gradient is an input of each      *)
(* train step, drawn from Updates.                                         *)
(***************************************************************************)
EXTENDS Integers, Sequences, FiniteSets, TLC

VARIABLES
    cfg,        \* the arguments DiffImbalance.__init__ is called with
    pc,         \* where the trainer's caller is: new, ready, epoch, step, ..., returned, raised
    obj,        \* the attributes of the DiffImbalance object (self)
    loc,        \* the local variables of train() and _train_epoch()
    error,      \* the exception that reached the caller (NoError while none did)
    hist,       \* history: what each epoch recorded, as it was when recorded
    calls,      \* how many times train() was called
    ext,        \* what the collaborators of DensityAdvanced return for the data set
    den,        \* the attributes of the DensityAdvanced object (self)
    runs,       \* history: how many times each stage of the density pipeline ran
    last,       \* the last call of an entry point of DensityAdvanced and its outcome
    ncalls,     \* how many entry points of DensityAdvanced were called
    fn          \* the application of one of the inner functions: its name, arguments, value

tvars == <<cfg, pc, obj, loc, error, hist, calls>>

dvars == <<ext, den, runs, last, ncalls>>

pvars == <<fn>>

vars == <<cfg, pc, obj, loc, error, hist, calls, ext, den, runs, last, ncalls, fn>>

-----------------------------------------------------------------------------
(* Bounds of the model *)

\* the largest number of samples of space A
MaxPoints == 4
\* the largest num_epochs
MaxEpochs == 2
\* the largest batches_per_epoch
MaxBatches == 2
\* how many times train() is called on a trainer
MaxTrainCalls == 2
\* the number of points of the data sets of the density pipeline
NumPoints == 3
\* the largest number of directed edges of a neighbour graph
MaxEdges == 3
\* how many entry points are called on a DensityAdvanced object
MaxDensityCalls == 2
\* the largest coordinate of a point of the data sets the inner functions are applied to
MaxCoord == 2

\* the largest weight magnitude the L1 step is applied to, in units of 0.05
MaxWeight == 3

\* how far, per point, a candidate solution of the linear system lies from the true
\* log-density
MaxOffset == 2

-----------------------------------------------------------------------------
(* Values *)

\* Python's None, for the optional numeric arguments (all of them are >= 0 when given).
None == 0 - 1

\* the cap on k_init and on the number of sorted distances (lines 225, 252-257)
K_CAP == 100

\* 0.1 in thousandths: the default initial weight (line 232)
DEFAULT_PARAM == 100

NoError == [type |-> "none", at |-> "none", names_optimizer |-> FALSE]

Err(type, at) == [type |-> type, at |-> at, names_optimizer |-> FALSE]

\* the entries jnp.empty allocates (JAX fills them with zeros)
ZeroTerm == [kind |-> "zero", params |-> 0, step |-> 0]

\* the two values _compute_diff_imbalance returns for weights p at step s
ImbTerm(p, s) == [kind |-> "imb", params |-> p, step |-> s]

ErrTerm(p, s) == [kind |-> "err", params |-> p, step |-> s]

\* what the optimizer subtracts from the weights in one update (thousandths)
Updates == {0, 50}

\* str.lower() on the optimizer names the model draws
Lower(s) ==
    CASE s = "SGD" -> "sgd"
      [] s = "Adam" -> "adam"
      [] s = "AdamW" -> "adamw"
      [] OTHER -> s

-----------------------------------------------------------------------------
(* DiffImbalance.__init__ *)

\* number of points along the rows of the distance and rank matrices (lines 180-207)
NRows(c) ==
    IF c.compute_error THEN c.nA \div 2
    ELSE IF c.num_points_rows # None THEN c.num_points_rows
    ELSE c.nA

\* number of points along the columns (lines 188, 195-196, 200)
NCols(c) == IF c.compute_error THEN c.nA - NRows(c) ELSE c.nA

\* self.max_rank (lines 189, 197, 201)
MaxRank(c) == IF c.compute_error THEN NCols(c) ELSE NCols(c) - 1

\* self.k_max_allowed (line 225)
KMaxAllowed(c) == IF MaxRank(c) > K_CAP THEN K_CAP ELSE MaxRank(c) + 1

\* self.k_init after the warning of lines 252-257
CappedKInit(c) == IF c.k_init # None /\ c.k_init > K_CAP THEN K_CAP ELSE c.k_init

KCheckPasses_Strict(c) == CappedKInit(c) > c.k_final

\* the check of lines 258-260, on the capped k_init
KCheckPasses(c) == CappedKInit(c) >= c.k_final

\* the check of lines 262-264
LambdaCheckPasses(c) == c.lambda_init >= c.lambda_final

\* the check of lines 242-245
BatchCheckPasses(c) == NRows(c) >= c.batches_per_epoch

\* The first exception __init__ raises for the arguments c, NoError when it returns.
\* A comparison of a number with None (k_final or lambda_final left None) is a TypeError.
CtorError(c) ==
    CASE c.nA # c.nB -> Err("AssertionError", "init:samples")
      [] c.compute_error /\ c.num_points_rows # None ->
            Err("AssertionError", "init:num_points_rows")
      [] ~BatchCheckPasses(c) -> Err("AssertionError", "init:batches")
      [] c.point_adapt_lambda /\ (c.k_init = None \/ c.k_final = None) ->
            Err("AssertionError", "init:point_adapt")
      [] c.k_init # None /\ c.k_final = None -> Err("TypeError", "init:k")
      [] c.k_init # None /\ ~KCheckPasses(c) -> Err("AssertionError", "init:k")
      [] c.lambda_init # None /\ c.lambda_final = None -> Err("TypeError", "init:lambda")
      [] c.lambda_init # None /\ ~LambdaCheckPasses(c) ->
            Err("AssertionError", "init:lambda")
      [] OTHER -> NoError

LambdaMethod_LambdaFirst(c) ==
    IF c.point_adapt_lambda THEN "point_adapt"
    ELSE IF c.lambda_init # None /\ c.lambda_final # None THEN "decay"
    ELSE IF CappedKInit(c) # None /\ c.k_final # None THEN "adapt"
    ELSE "unset"

\* self.lambda_method (lines 275-280); "unset" when no branch assigns it
LambdaMethod(c) ==
    IF c.point_adapt_lambda THEN "point_adapt"
    ELSE IF CappedKInit(c) # None /\ c.k_final # None THEN "adapt"
    ELSE IF c.lambda_init # None /\ c.lambda_final # None THEN "decay"
    ELSE "unset"

\* self.init_params (lines 229-232)
InitParams(c) == IF c.init_params # None THEN c.init_params ELSE DEFAULT_PARAM

NoState == [set |-> FALSE, params |-> 0, step |-> 0]

NoObj == [built |-> FALSE, ranks_B |-> FALSE, lambda_method |-> "unset"]

\* the object __init__ leaves when it returns
NewObj(c) ==
    [ built |-> TRUE,
      nrows |-> NRows(c),
      ncols |-> NCols(c),
      max_rank |-> MaxRank(c),
      num_epochs |-> c.num_epochs,
      batches_per_epoch |-> c.batches_per_epoch,
      l1_strength |-> c.l1_strength,
      k_init |-> CappedKInit(c),
      k_final |-> c.k_final,
      k_max_allowed |-> KMaxAllowed(c),
      lambda_init |-> c.lambda_init,
      lambda_final |-> c.lambda_final,
      init_params |-> InitParams(c),
      final_params |-> None,
      optimizer_name |-> c.optimizer_name,
      learning_rate |-> c.learning_rate,
      learning_rate_decay |-> c.learning_rate_decay,
      compute_error |-> c.compute_error,
      state |-> NoState,
      lr_schedule |-> "unset",
      ranks_B |-> TRUE,
      lambda_method |-> LambdaMethod(c) ]

NoLoc ==
    [ params_output |-> <<>>, imbs_output |-> <<>>, errors_output |-> <<>>,
      epoch_idx |-> 0, batch_left |-> 0, imb |-> ZeroTerm, error |-> ZeroTerm,
      returned |-> <<>> ]

NoHist == [imb |-> <<>>, err |-> <<>>, params |-> <<>>]

\* DiffImbalance(...): the constructor runs on the arguments cfg
Construct ==
    /\ pc = "new"
    /\ IF CtorError(cfg) = NoError
       THEN /\ obj' = NewObj(cfg)
            /\ pc' = "ready"
            /\ error' = error
       ELSE /\ obj' = obj
            /\ pc' = "raised"
            /\ error' = CtorError(cfg)
    /\ UNCHANGED <<cfg, loc, hist, calls>>
    /\ UNCHANGED <<dvars, pvars>>

-----------------------------------------------------------------------------
(* The schedules *)

Min(a, b) == IF a <= b THEN a ELSE b

Max(a, b) == IF a >= b THEN a ELSE b

\* num_epochs * batches_per_epoch: the number of optimizer steps of one train() call
TotalSteps(o) == o.num_epochs * o.batches_per_epoch

\* cos(pi * s / T) in thousandths for 0 <= s <= T, T > 0, by Bhaskara's rational
\* approximation cos(x) = (pi^2 - 4x^2) / (pi^2 + x^2) on [-pi/2, pi/2] and
\* cos(pi - x) = -cos(x): exact at s = 0, s = T/2 and s = T, decreasing in s.
CosMilli(s, T) ==
    IF 2 * s <= T
    THEN (1000 * (T * T - 4 * s * s)) \div (T * T + s * s)
    ELSE 0 - ((1000 * (T * T - 4 * (T - s) * (T - s))) \div (T * T + (T - s) * (T - s)))

\* _cosine_decay_func(start_value, final_value, step) (lines 325-327), thousandths in,
\* thousandths out; the caller has checked TotalSteps(o) > 0
CosineDecayFunc(o, start_value, final_value, step) ==
    ((start_value - final_value) * (CosMilli(Min(step, TotalSteps(o)), TotalSteps(o)) + 1000))
        \div 2000 + final_value

\* self.lr_schedule(step): optax.cosine_decay_schedule(learning_rate, decay_steps) or
\* optax.constant_schedule(learning_rate) (lines 615-623)
LrSchedule(o, step) ==
    IF o.lr_schedule = "cosine"
    THEN (o.learning_rate * (CosMilli(Min(step, TotalSteps(o)), TotalSteps(o)) + 1000))
            \div 2000
    ELSE o.learning_rate

\* the L1 step without the clipping at zero
SoftThreshold_NoClip(p, t) ==
    IF p > 0 THEN p - t
    ELSE IF p < 0 THEN p + t
    ELSE 0

\* the L1 step of _train_step (lines 478-484) on the weight p, with t = current_lr * l1_strength
SoftThreshold(p, t) ==
    IF p > 0 THEN Max(0, p - t)
    ELSE IF p < 0 THEN Min(0, p + t)
    ELSE 0

-----------------------------------------------------------------------------
(* DiffImbalance._init_optimizer and the evaluation of the objective *)

\* whether _init_optimizer finds the optimizer (lines 606-613)
KnownOptimizer(o) == Lower(o.optimizer_name) \in {"adam", "adamw", "sgd"}

\* The exception of line 613: the message of the failing assert reads the local
\* opt_class, which no branch has assigned, so evaluating it raises UnboundLocalError
\* (and with asserts disabled line 624 reads the same unassigned local).
OptimizerError == Err("UnboundLocalError", "train:_init_optimizer")

\* the TrainState _init_optimizer creates (lines 626-630)
NewTrainState(o) ==
    [ set |-> TRUE,
      params |-> IF o.state.set THEN o.state.params ELSE o.init_params,
      step |-> 0 ]

\* The exception a call of _compute_diff_imbalance raises on the object o, NoError when
\* it returns: self.lambda_method was never assigned (line 421); the division by
\* num_epochs * batches_per_epoch = 0 in _cosine_decay_func (line 325); jax.lax.top_k
\* asked for more entries than the distance matrix has columns (line 348).
EvalError(o) ==
    CASE o.lambda_method = "unset" -> Err("AttributeError", "train:lambda_method")
      [] TotalSteps(o) = 0 -> Err("ZeroDivisionError", "train:_cosine_decay_func")
      [] o.lambda_method \in {"adapt", "point_adapt"} /\ o.k_max_allowed > o.ncols ->
            Err("ValueError", "train:top_k")
      [] OTHER -> NoError

\* the arrays train() allocates (lines 511-513) with entry 0 set (lines 523-525)
StartArray(o, first, zero) == [e \in 0..o.num_epochs |-> IF e = 0 THEN first ELSE zero]

\* train(), lines 507-525: the optimizer, the output arrays, the initial evaluation
TrainBegin ==
    /\ pc \in {"ready", "returned"}
    /\ calls < MaxTrainCalls
    /\ calls' = calls + 1
    /\ IF ~KnownOptimizer(obj)
       THEN /\ pc' = "raised"
            /\ error' = OptimizerError
            /\ UNCHANGED <<obj, loc, hist>>
       ELSE \E sched_ok \in IF obj.learning_rate_decay /\ TotalSteps(obj) = 0
                            THEN {TRUE, FALSE} ELSE {TRUE} :
            LET o1 == [obj EXCEPT !.state = NewTrainState(obj),
                                  !.lr_schedule = IF obj.learning_rate_decay
                                                  THEN "cosine" ELSE "constant"]
            IN  IF ~sched_ok
                THEN \* optax refuses a cosine schedule over 0 steps
                     /\ pc' = "raised"
                     /\ error' = Err("ValueError", "train:_init_optimizer")
                     /\ UNCHANGED <<obj, loc, hist>>
                ELSE IF EvalError(o1) # NoError
                THEN /\ pc' = "raised"
                     /\ error' = EvalError(o1)
                     /\ obj' = o1
                     /\ UNCHANGED <<loc, hist>>
                ELSE /\ pc' = "loop"
                     /\ error' = NoError
                     /\ obj' = o1
                     /\ loc' = [ params_output |-> StartArray(o1, o1.init_params, 0),
                                 imbs_output |->
                                    StartArray(o1, ImbTerm(o1.init_params, 0), ZeroTerm),
                                 errors_output |->
                                    StartArray(o1, ErrTerm(o1.init_params, 0), ZeroTerm),
                                 epoch_idx |-> 0,
                                 batch_left |-> 0,
                                 imb |-> ZeroTerm,
                                 error |-> ZeroTerm,
                                 returned |-> <<>> ]
                     /\ hist' = [ imb |-> <<ImbTerm(o1.init_params, 0)>>,
                                  err |-> <<ErrTerm(o1.init_params, 0)>>,
                                  params |-> <<o1.init_params>> ]
    /\ UNCHANGED cfg
    /\ UNCHANGED <<dvars, pvars>>

-----------------------------------------------------------------------------
(* DiffImbalance.train: the loop over the epochs, and _train_epoch *)

\* jnp.split(permutation, batches_per_epoch) of line 556 wants equal parts
SplitPasses(o) == o.nrows % o.batches_per_epoch = 0

\* line 528 and lines 556-558: the next epoch starts and the rows are split
EpochBegin ==
    /\ pc = "loop"
    /\ loc.epoch_idx < obj.num_epochs
    /\ IF SplitPasses(obj)
       THEN /\ pc' = "step"
            /\ loc' = [loc EXCEPT !.epoch_idx = @ + 1,
                                  !.batch_left = obj.batches_per_epoch]
            /\ error' = error
       ELSE /\ pc' = "raised"
            /\ error' = Err("ValueError", "train:_train_epoch:split")
            /\ loc' = [loc EXCEPT !.epoch_idx = @ + 1]
    /\ UNCHANGED <<cfg, obj, hist, calls>>
    /\ UNCHANGED <<dvars, pvars>>

\* the weights after one _train_step from the TrainState st with the optimizer's
\* update u (lines 476-484): apply_gradients, then the L1 step at the new step's rate
StepParams(o, st, u) ==
    SoftThreshold(st.params - u, LrSchedule(o, st.step + 1) * o.l1_strength)

\* the value and the error _train_step returns (lines 469-473): those of the loss at
\* the weights and the step of the TrainState it was given
StepImb(st) == ImbTerm(st.params, st.step)

StepError(st) == ErrTerm(st.params, st.step)

\* lines 577-584: one minibatch, one _train_step
TrainStep ==
    /\ pc = "step"
    /\ loc.batch_left > 0
    /\ \E u \in Updates :
          /\ obj' = [obj EXCEPT !.state = [ set |-> TRUE,
                                            params |-> StepParams(obj, obj.state, u),
                                            step |-> obj.state.step + 1 ]]
          /\ loc' = [loc EXCEPT !.batch_left = @ - 1,
                                !.imb = StepImb(obj.state),
                                !.error = StepError(obj.state)]
    /\ UNCHANGED <<cfg, pc, error, hist, calls>>
    /\ UNCHANGED <<dvars, pvars>>

WriteParams_OffByOne(l, params_now) ==
    [l.params_output EXCEPT ![l.epoch_idx - 1] = params_now]

\* line 533
WriteParams(l, params_now) == [l.params_output EXCEPT ![l.epoch_idx] = params_now]

\* line 534
WriteImbs(l, imb_now) == [l.imbs_output EXCEPT ![l.epoch_idx] = imb_now]

\* line 535: the new error array is made from the array of the objective values
\* (already holding this epoch's value), with this epoch's error set
WriteErrors(l, imbs_new, error_now) == [imbs_new EXCEPT ![l.epoch_idx] = error_now]

\* line 596 and lines 533-535: the epoch returns and its snapshot is written
EpochEnd ==
    /\ pc = "step"
    /\ loc.batch_left = 0
    /\ pc' = "loop"
    /\ LET imbs_new == WriteImbs(loc, loc.imb)
       IN  loc' = [loc EXCEPT !.params_output = WriteParams(loc, obj.state.params),
                              !.imbs_output = imbs_new,
                              !.errors_output = WriteErrors(loc, imbs_new, loc.error)]
    /\ hist' = [ imb |-> Append(hist.imb, loc.imb),
                 err |-> Append(hist.err, loc.error),
                 params |-> Append(hist.params, obj.state.params) ]
    /\ UNCHANGED <<cfg, obj, error, calls>>
    /\ UNCHANGED <<dvars, pvars>>

\* what train() returns (lines 537-540)
Returned(o, l) ==
    IF o.compute_error
    THEN <<l.params_output, l.imbs_output, l.errors_output>>
    ELSE <<l.params_output, l.imbs_output>>

\* lines 536-540
TrainReturn ==
    /\ pc = "loop"
    /\ loc.epoch_idx = obj.num_epochs
    /\ pc' = "returned"
    /\ obj' = [obj EXCEPT !.final_params = loc.params_output[obj.num_epochs]]
    /\ loc' = [loc EXCEPT !.returned = Returned(obj, loc)]
    /\ UNCHANGED <<cfg, error, hist, calls>>
    /\ UNCHANGED <<dvars, pvars>>

-----------------------------------------------------------------------------
(* DensityAdvanced: values                                                 *)
(*                                                                         *)
(* Numbers.  Gradients, displacements, variances and log-densities are     *)
(* integers; where the code divides or takes a square root the model       *)
(* rounds down (fixed point).  alpha and the edge weights are in           *)
(* thousandths.  The matrix A and the vector b of the linear system are    *)
(* kept multiplied by 4 * 10^6 (4 for the prior precision 1/err^2 with     *)
(* err in {1, 2}, 10^3 for alpha, 10^3 for the weights).  The solution of  *)
(* the system and the diagonal of its pseudo-inverse are kept as terms     *)
(* naming the system they were computed from.                              *)
(***************************************************************************)

Points == 1..NumPoints

\* an attribute that is None, and one that holds the array v
Nothing == [has |-> FALSE, v |-> <<>>]

Some(v) == [has |-> TRUE, v |-> v]

\* alpha = 1.0 in thousandths (line 273) and the default alpha = 0.1 (line 286)
ALPHA_ONE == 1000

ALPHA_DEFAULT == 100

\* self.log_den and self.log_den_err: None, a vector, or the result of a computation
\* on the system (A, b): "solve" in the mode `mode`, "pinvh" the square roots of the
\* diagonal of the pseudo-inverse of A
NoValue == [kind |-> "none", vec |-> <<>>, A |-> <<>>, b |-> <<>>, mode |-> "none"]

VecValue(v) == [kind |-> "vec", vec |-> v, A |-> <<>>, b |-> <<>>, mode |-> "none"]

SolveValue(A, b, mem_efficient) ==
    [ kind |-> "solve", vec |-> <<>>, A |-> A, b |-> b,
      mode |-> IF mem_efficient THEN "spsolve" ELSE "dense" ]

PinvhValue(A) == [kind |-> "pinvh", vec |-> <<>>, A |-> A, b |-> <<>>, mode |-> "none"]

\* F(x), with x computed once
Let(x, F(_)) == CHOOSE y \in {F(v) : v \in {x}} : TRUE

RECURSIVE Array(_, _)
\* the array <<f[1], ..., f[n]>>
Array(f, n) == IF n = 0 THEN <<>> ELSE Append(Array(f, n - 1), f[n])

\* np.ones(self.N) (lines 274-275)
Ones == Array([i \in Points |-> 1], NumPoints)

RECURSIVE SumOver(_, _)
\* the sum of f[x] over the finite set S of the domain of f
SumOver(f, S) ==
    IF S = {} THEN 0
    ELSE LET x == CHOOSE y \in S : TRUE
         IN  f[x] + SumOver(f, S \ {x})

RECURSIVE IsqrtIn(_, _, _)
\* the largest r in lo..hi with r * r <= n, by bisection (lo * lo <= n)
IsqrtIn(n, lo, hi) ==
    IF lo >= hi THEN lo
    ELSE LET mid == (lo + hi + 1) \div 2
         IN  IF mid * mid <= n THEN IsqrtIn(n, mid, hi) ELSE IsqrtIn(n, lo, mid - 1)

\* np.sqrt, rounded down (n < 2^31, so the root is at most 46340)
Isqrt(n) == IsqrtIn(n, 0, IF n < 46340 THEN n ELSE 46340)

\* the position of the directed edge <<i, j>> in the order of nind_list: by i, then j
EdgeKey(e) == e[1] * (NumPoints + 1) + e[2]

RECURSIVE SortedEdges(_)
\* nind_list for the set S of directed edges: the edges of each point are contiguous
SortedEdges(S) ==
    IF S = {} THEN <<>>
    ELSE LET e == CHOOSE x \in S : \A y \in S : EdgeKey(x) <= EdgeKey(y)
         IN  <<e>> \o SortedEdges(S \ {e})

\* the directed neighbour relations between distinct points
AllEdges == {e \in Points \X Points : e[1] # e[2]}

\* The data sets: what the collaborators return when asked.
\*   nind_list   the directed edge list (NeighGraph)
\*   coords      the position of each point on a line (intrinsic dimension 1)
\*   kstar       the neighbourhood size of each point (>= 2)
\*   grads0      the gradient the cython kernel returns for each point
\*   var0        the variance the cython kernel returns, before Bessel's correction
\*   pearson2    twice the correlation coefficient of the edge at each position
\*   inv_cov     the diagonal inverse cross-covariance the cython kernel returns for
\*               the edge at each position (thousandths)
\*   knn_den, knn_err   the log-density and its error compute_density_kstarNN sets
\* The data set with the directed edges E; g0 picks one of two sets of numbers
World(E, g0) ==
    [ on |-> TRUE,
      nind_list |-> SortedEdges(E),
      coords |-> Array([i \in Points |-> i * i], NumPoints),
      kstar |-> Array([i \in Points |-> 2 + ((g0 - 1) * (i % 2))], NumPoints),
      grads0 |-> Array([i \in Points |-> 2 * g0 * (i - 2)], NumPoints),
      var0 |-> Array([i \in Points |-> 2 * (1 + ((i + g0) % 2))], NumPoints),
      pearson2 |-> Array([n \in 1..Cardinality(E) |-> n % 2], Cardinality(E)),
      inv_cov |-> Array([n \in 1..Cardinality(E) |-> 500 * (1 + (n % 3))],
                        Cardinality(E)),
      knn_den |-> Array([i \in Points |-> i + 1], NumPoints),
      knn_err |-> Array([i \in Points |-> 1 + (i % 2)], NumPoints) ]

\* every edge list of at most MaxEdges edges
Worlds ==
    { World(E, g0) : E \in {X \in SUBSET AllEdges : Cardinality(X) <= MaxEdges},
                     g0 \in {1, 2} }

\* the data sets the sequences of calls run on: a pair of points that are each
\* other's neighbour, and a chain 1 -> 2 -> 3 with no edge back
PipelineWorlds ==
    { World({<<1, 2>>, <<2, 1>>}, 1),
      World({<<1, 2>>, <<2, 3>>}, 1),
      World({<<1, 2>>, <<2, 3>>}, 2) }

NoWorld == [on |-> FALSE]

\* the attributes after DensityAdvanced.__init__ (lines 77-84 and the parent classes)
NewDensity ==
    [ kstar |-> Nothing,
      nind_list |-> Nothing,
      neigh_vector_diffs |-> Nothing,
      grads |-> Nothing,
      grads_var |-> Nothing,
      grads_covmat |-> Nothing,
      pearson_mat |-> Nothing,
      pearson_array |-> Nothing,
      Fij_array |-> Nothing,
      Fij_var_array |-> Nothing,
      inv_deltaFs_cov |-> Nothing,
      log_den |-> NoValue,
      log_den_err |-> NoValue ]

NoRuns ==
    [ kstar |-> 0, vector_diffs |-> 0, grads |-> 0, pearson |-> 0, deltaFs |-> 0,
      inv_cov |-> 0, kstarNN |-> 0, system |-> 0, solve |-> 0 ]

NoSystem == [built |-> FALSE, A |-> <<>>, b |-> <<>>, alpha |-> 0, delta_F_err |-> "none"]

NoCall ==
    [ name |-> "none", raised |-> "none", sys |-> NoSystem,
      reg |-> NewDensity, reg_raised |-> "none" ]

\* a method in progress: the object, the stage counters and the exception raised
Running(d, r) == [den |-> d, runs |-> r, raised |-> "none"]

Ran(m, stage) == [m.runs EXCEPT ![stage] = @ + 1]

-----------------------------------------------------------------------------
(* DensityAdvanced: the collaborators (methods of the parent classes) *)

\* NeighGraph.compute_kstar: sets kstar and, as the comment of lines 297-298 says,
\* resets log_den and log_den_err to None
ComputeKstar(w, m) ==
    [m EXCEPT !.den = [m.den EXCEPT !.kstar = Some(w.kstar),
                                    !.log_den = NoValue,
                                    !.log_den_err = NoValue],
              !.runs = Ran(m, "kstar")]

\* NeighGraph.compute_neigh_vector_diffs: the edge list and the displacement
\* x_j - x_i along each edge
ComputeNeighVectorDiffs(w, m) ==
    [m EXCEPT !.den = [m.den EXCEPT
                          !.nind_list = Some(w.nind_list),
                          !.neigh_vector_diffs =
                              Some(Array([n \in 1..Len(w.nind_list) |->
                                            w.coords[w.nind_list[n][2]]
                                              - w.coords[w.nind_list[n][1]]],
                                         Len(w.nind_list)))],
              !.runs = Ran(m, "vector_diffs")]

\* NeighGraph.compute_pearson(method, comp_p_mat): the correlation of each edge, as
\* an array and, when comp_p_mat is set, as a matrix too
ComputePearson(w, m, comp_p_mat) ==
    [m EXCEPT !.den = [m.den EXCEPT
                          !.pearson_array = Some(w.pearson2),
                          !.pearson_mat = IF comp_p_mat THEN Some(w.pearson2) ELSE @],
              !.runs = Ran(m, "pearson")]

\* DensityEstimation.compute_density_kstarNN: the k*-NN log-density and its error
ComputeDensityKstarNN(w, m) ==
    [m EXCEPT !.den = [m.den EXCEPT !.log_den = VecValue(w.knn_den),
                                    !.log_den_err = VecValue(w.knn_err)],
              !.runs = Ran(m, "kstarNN")]

-----------------------------------------------------------------------------
(* DensityAdvanced.compute_grads, compute_deltaFs, compute_deltaFs_inv_cross_covariance *)

\* Bessel's correction v * kstar / (kstar - 1) (lines 119-121, 133-135)
Bessel(v, k) ==
    IF k = 1 THEN (IF v = 0 THEN "nan" ELSE "inf") ELSE (v * k) \div (k - 1)

\* compute_grads(comp_covmat) (lines 99-140)
ComputeGrads(w, m0, comp_covmat) ==
    Let(IF m0.den.kstar.has THEN m0 ELSE ComputeKstar(w, m0), LAMBDA m1 :
    Let(IF m1.den.neigh_vector_diffs.has THEN m1 ELSE ComputeNeighVectorDiffs(w, m1),
        LAMBDA m2 :
    Let(Array([i \in DOMAIN w.var0 |-> Bessel(w.var0[i], m2.den.kstar.v[i])],
              Len(w.var0)),
        LAMBDA var :
        [m2 EXCEPT !.den = [m2.den EXCEPT
                               !.grads = Some(w.grads0),
                               !.grads_var = Some(var),
                               !.grads_covmat = IF comp_covmat THEN Some(var) ELSE @],
                   !.runs = Ran(m2, "grads")])))

\* the gradient at the first endpoint alone, not the mean of the two
FijOf_OneSided(d, n) ==
    d.grads.v[d.nind_list.v[n][1]] * d.neigh_vector_diffs.v[n]

\* Fij_array[n] = 0.5 * (g_i + g_j) * dx for the edge n = (i, j) (line 184)
FijOf(d, n) ==
    ((d.grads.v[d.nind_list.v[n][1]] + d.grads.v[d.nind_list.v[n][2]])
        * d.neigh_vector_diffs.v[n]) \div 2

\* dx * Cov_p * dx for the endpoint p of the edge n (lines 185-194)
QuadForm(d, n, p) ==
    d.neigh_vector_diffs.v[n] * d.grads_covmat.v[p] * d.neigh_vector_diffs.v[n]

\* 4 * Fij_var_array[n] = vari + varj + 2 * pearson * sqrt(vari * varj) (lines 195-197)
FijVar4Of(d, n) ==
    Let(QuadForm(d, n, d.nind_list.v[n][1]), LAMBDA vari :
    Let(QuadForm(d, n, d.nind_list.v[n][2]), LAMBDA varj :
        vari + varj + d.pearson_array.v[n] * Isqrt(vari * varj)))

\* compute_deltaFs that computes the gradients whether or not grads_covmat is there
ComputeDeltaFs_AlwaysGrads(w, m0, comp_p_mat) ==
    Let(ComputeGrads(w, m0, TRUE), LAMBDA m1 :
    Let(IF m1.den.pearson_mat.has THEN m1 ELSE ComputePearson(w, m1, comp_p_mat),
        LAMBDA m2 :
    Let(Len(m2.den.nind_list.v), LAMBDA nspar :
        [m2 EXCEPT !.den = [m2.den EXCEPT
                               !.Fij_array =
                                   Some(Array([n \in 1..nspar |-> FijOf(m2.den, n)], nspar)),
                               !.Fij_var_array =
                                   Some(Array([n \in 1..nspar |-> FijVar4Of(m2.den, n)],
                                              nspar))],
                   !.runs = Ran(m2, "deltaFs")])))

\* compute_deltaFs(pearson_method, comp_p_mat) (lines 163-204)
ComputeDeltaFs(w, m0, comp_p_mat) ==
    Let(IF m0.den.grads_covmat.has THEN m0 ELSE ComputeGrads(w, m0, TRUE), LAMBDA m1 :
    Let(IF m1.den.pearson_mat.has THEN m1 ELSE ComputePearson(w, m1, comp_p_mat),
        LAMBDA m2 :
    Let(Len(m2.den.nind_list.v), LAMBDA nspar :
        [m2 EXCEPT !.den = [m2.den EXCEPT
                               !.Fij_array =
                                   Some(Array([n \in 1..nspar |-> FijOf(m2.den, n)], nspar)),
                               !.Fij_var_array =
                                   Some(Array([n \in 1..nspar |-> FijVar4Of(m2.den, n)],
                                              nspar))],
                   !.runs = Ran(m2, "deltaFs")])))

\* compute_deltaFs_inv_cross_covariance(pearson_method) (lines 220-242)
ComputeInvCrossCov(w, m0) ==
    Let(IF m0.den.pearson_mat.has THEN m0 ELSE ComputePearson(w, m0, TRUE), LAMBDA m1 :
    Let(IF m1.den.Fij_var_array.has THEN m1 ELSE ComputeDeltaFs(w, m1, FALSE), LAMBDA m2 :
        [m2 EXCEPT !.den = [m2.den EXCEPT !.inv_deltaFs_cov = Some(w.inv_cov)],
                   !.runs = Ran(m2, "inv_cov")]))

-----------------------------------------------------------------------------
(* DensityAdvanced._get_BMTI_reg_linear_system *)

ValidDeltaFErr(delta_F_err) == delta_F_err \in {"uncorr", "LSDI", "none"}

\* the object after the branch of lines 353-372 chosen by delta_F_err: only "LSDI"
\* changes it, by computing the inverse cross-covariance
WeightStage(w, m, delta_F_err) ==
    IF delta_F_err = "LSDI" THEN ComputeInvCrossCov(w, m)
    ELSE IF ValidDeltaFErr(delta_F_err) THEN m
    ELSE [m EXCEPT !.raised = "ValueError"]

\* tmpvec[n] in thousandths (lines 353-367), for a valid delta_F_err:
\*   uncorr  1 / Fij_var_array / sqrt(kstar_i * kstar_j)
\*   LSDI    inv_deltaFs_cov
\*   none    1
TmpvecAt(d, delta_F_err, n) ==
    CASE delta_F_err = "uncorr" ->
            (4 * 1000 * 100)
              \div (d.Fij_var_array.v[n]
                      * Isqrt(10000 * d.kstar.v[d.nind_list.v[n][1]]
                                    * d.kstar.v[d.nind_list.v[n][2]]))
      [] delta_F_err = "LSDI" -> d.inv_deltaFs_cov.v[n]
      [] OTHER -> 1000

\* tmpvec (lines 353-367)
Tmpvec(d, delta_F_err) ==
    Array([n \in 1..Len(d.nind_list.v) |-> TmpvecAt(d, delta_F_err, n)],
          Len(d.nind_list.v))

\* range(self.N): the points of the object d, one for each entry of kstar
PointsOf(d) == DOMAIN d.kstar.v

\* the N x N matrix with the entries f[i][j], for f on the N points of an object
Matrix(f) ==
    Array([i \in DOMAIN f |-> Array(f[i], Cardinality(DOMAIN f))], Cardinality(DOMAIN f))

\* the positions in nind_list of the edge (i, j)
EdgesAt(d, i, j) == {n \in 1..Len(d.nind_list.v) : d.nind_list.v[n] = <<i, j>>}

\* the csr_matrix of lines 375-379: entry (i, j) is the sum of -tmpvec over the edges (i, j)
Adjacency(d, tmpvec) ==
    Matrix([i \in PointsOf(d) |->
              [j \in PointsOf(d) |-> 0 - SumOver(tmpvec, EdgesAt(d, i, j))]])

\* supp_deltaF of lines 382-386: entry (i, j) is the sum of Fij * tmpvec over the edges (i, j)
SuppDeltaF(d, tmpvec) ==
    Matrix([i \in PointsOf(d) |-> [j \in PointsOf(d) |->
        SumOver([n \in 1..Len(d.nind_list.v) |-> d.Fij_array.v[n] * tmpvec[n]],
                EdgesAt(d, i, j))]])

\* alpha * (A + A), the transpose left out
Symmetrized_NoTranspose(M, alpha) ==
    Matrix([i \in DOMAIN M |-> [j \in DOMAIN M |-> 4 * alpha * (M[i][j] + M[i][j])]])

\* line 389: A = alpha * (A + A.transpose()), times 4
Symmetrized(M, alpha) ==
    Matrix([i \in DOMAIN M |-> [j \in DOMAIN M |-> 4 * alpha * (M[i][j] + M[j][i])]])

\* 4 / err^2 for the prior error err (lines 395, 406)
Precision4(err) == 4 \div (err * err)

\* the prior-precision term alone, the row sums left out
Diag_PriorOnly(d, S, alpha) ==
    Array([i \in DOMAIN S |-> (1000 - alpha) * 1000 * Precision4(d.log_den_err.vec[i])],
          Len(S))

\* lines 393-396: minus the row sums of A plus (1 - alpha) / log_den_err^2
Diag(d, S, alpha) ==
    Array([i \in DOMAIN S |->
              (0 - SumOver(S[i], DOMAIN S))
                + (1000 - alpha) * 1000 * Precision4(d.log_den_err.vec[i])],
          Len(S))

\* line 398: A.setdiag(diag)
SetDiag(S, diag) ==
    Matrix([i \in DOMAIN S |-> [j \in DOMAIN S |-> IF i = j THEN diag[i] ELSE S[i][j]]])

\* the matrix A the builder returns (lines 375-398)
SystemMatrix(d, tmpvec, alpha) ==
    Let(Adjacency(d, tmpvec), LAMBDA M :
    Let(Symmetrized(M, alpha), LAMBDA S :
        SetDiag(S, Diag(d, S, alpha))))

\* alpha * (row sums - column sums of supp_deltaF) + the prior term
SystemRhs_RowsMinusColumns(d, tmpvec, alpha) ==
    Let(SuppDeltaF(d, tmpvec), LAMBDA F :
        Array([i \in DOMAIN F |->
                  4 * alpha * (SumOver(F[i], DOMAIN F)
                                  - SumOver([j \in DOMAIN F |-> F[j][i]], DOMAIN F))
                    + (1000 - alpha) * 1000 * d.log_den.vec[i]
                        * Precision4(d.log_den_err.vec[i])],
              Len(F)))

\* deltaFcum (lines 400-407): alpha * (column sums - row sums of supp_deltaF)
\* + (1 - alpha) * log_den / log_den_err^2
SystemRhs(d, tmpvec, alpha) ==
    Let(SuppDeltaF(d, tmpvec), LAMBDA F :
        Array([i \in DOMAIN F |->
                  4 * alpha * (SumOver([j \in DOMAIN F |-> F[j][i]], DOMAIN F)
                                  - SumOver(F[i], DOMAIN F))
                    + (1000 - alpha) * 1000 * d.log_den.vec[i]
                        * Precision4(d.log_den_err.vec[i])],
              Len(F)))

\* _get_BMTI_reg_linear_system(delta_F_err, alpha) (lines 352-409) on the object d,
\* for a valid delta_F_err
LinearSystem(d, delta_F_err, alpha) ==
    Let(Tmpvec(d, delta_F_err), LAMBDA tmpvec :
        [ built |-> TRUE,
          A |-> SystemMatrix(d, tmpvec, alpha),
          b |-> SystemRhs(d, tmpvec, alpha),
          alpha |-> alpha,
          delta_F_err |-> delta_F_err ])

\* the call self._get_BMTI_reg_linear_system(delta_F_err, alpha) on the object of m:
\* the object after it, the exception it raised and the system (A, deltaFcum) returned
BuildSystem(w, m, delta_F_err, alpha) ==
    Let(WeightStage(w, m, delta_F_err), LAMBDA m3 :
        IF m3.raised # "none"
        THEN [den |-> m3.den, runs |-> m3.runs, raised |-> m3.raised, sys |-> NoSystem]
        ELSE [ den |-> m3.den, runs |-> Ran(m3, "system"), raised |-> "none",
               sys |-> LinearSystem(m3.den, delta_F_err, alpha) ])

-----------------------------------------------------------------------------
(* DensityAdvanced.compute_density_BMTI_reg and compute_density_BMTI *)

\* A * (1, ..., 1) = 0: the rows of A sum to zero, so A is singular
ZeroRowSums(A) == \A i \in DOMAIN A : SumOver(A[i], DOMAIN A) = 0

\* lines 293-303 of compute_density_BMTI_reg: the pairwise deltas are computed if
\* Fij_array is None, then log_den and log_den_err are set from the arguments or, if
\* one of them is None, by compute_density_kstarNN
PriorStage(w, m0, log_den, log_den_err) ==
    Let(IF m0.den.Fij_array.has THEN m0 ELSE ComputeDeltaFs(w, m0, FALSE), LAMBDA m1 :
        IF log_den.has /\ log_den_err.has
        THEN [m1 EXCEPT !.den = [m1.den EXCEPT
                                    !.log_den = VecValue(log_den.v),
                                    !.log_den_err = VecValue(log_den_err.v)]]
        ELSE ComputeDensityKstarNN(w, m1))

\* compute_density_BMTI_reg(alpha, log_den, log_den_err, delta_F_err,
\* comp_log_den_err, mem_efficient) (lines 293-336) on the object of m0.  The prior
\* arguments are Nothing (None) or Some(vector).  dense_solves tells whether
\* np.linalg.solve returns on a singular matrix (rounding decides) or raises.
DensityBMTIReg(w, m0, alpha, log_den, log_den_err, delta_F_err, comp_log_den_err, mem_efficient, dense_solves) ==
    Let(PriorStage(w, m0, log_den, log_den_err), LAMBDA m2 :
    Let(BuildSystem(w, m2, delta_F_err, alpha), LAMBDA m3 :
        IF m3.raised # "none" THEN m3
        ELSE IF ~mem_efficient /\ ZeroRowSums(m3.sys.A) /\ ~dense_solves
        THEN [m3 EXCEPT !.raised = "LinAlgError"]
        ELSE [m3 EXCEPT
                 !.den = [m3.den EXCEPT
                             !.log_den = SolveValue(m3.sys.A, m3.sys.b, mem_efficient),
                             !.log_den_err = IF comp_log_den_err
                                             THEN PinvhValue(m3.sys.A) ELSE @],
                 !.runs = Ran(m3, "solve")]))

\* np.ones(self.N) (lines 274-275) on the data set w
OnesFor(w) == Array([i \in DOMAIN w.coords |-> 1], Len(w.coords))

\* the call with compute_density_BMTI_reg's default alpha instead of 1.0
DensityBMTI_DefaultAlpha(w, m0, delta_F_err, comp_log_den_err, mem_efficient, dense_solves) ==
    DensityBMTIReg(w, m0, ALPHA_DEFAULT, Some(OnesFor(w)), Some(OnesFor(w)), delta_F_err,
                   comp_log_den_err, mem_efficient, dense_solves)

\* compute_density_BMTI(delta_F_err, comp_log_den_err, mem_efficient) (lines 272-279)
DensityBMTI(w, m0, delta_F_err, comp_log_den_err, mem_efficient, dense_solves) ==
    DensityBMTIReg(w, m0, ALPHA_ONE, Some(OnesFor(w)), Some(OnesFor(w)), delta_F_err,
                   comp_log_den_err, mem_efficient, dense_solves)

-----------------------------------------------------------------------------
(* The calls of the entry points of DensityAdvanced *)

\* the values of the arguments the calls are made with
DeltaFErrs == {"uncorr", "LSDI", "none", "corr"}

Alphas == {ALPHA_DEFAULT, ALPHA_ONE}

\* a prior (log_den, log_den_err) that is not uniform
GivenPrior ==
    <<Some(Array([i \in Points |-> 2 * i], NumPoints)),
      Some(Array([i \in Points |-> 1 + ((i + 1) % 2)], NumPoints))>>

\* the pairs (log_den, log_den_err): both None, both given, only log_den given
Priors == {<<Nothing, Nothing>>, GivenPrior, <<Some(Ones), Nothing>>}

\* what np.linalg.solve may do (dense_solves): with alpha < 1 the matrix is strictly
\* diagonally dominant and the solve returns; with alpha = 1 the rows sum to zero and
\* the dense solver either raises LinAlgError or returns, as rounding decides
SolveOutcomes(alpha, mem_efficient) ==
    IF alpha = ALPHA_ONE /\ ~mem_efficient THEN BOOLEAN ELSE {TRUE}

\* the record of a call that is not compute_density_BMTI
Called(name, r) ==
    [ name |-> name, raised |-> r.raised, sys |-> NoSystem,
      reg |-> r.den, reg_raised |-> r.raised ]

\* data.compute_grads(comp_covmat)
CallComputeGrads ==
    /\ ext.on
    /\ ncalls < MaxDensityCalls
    /\ \E comp_covmat \in BOOLEAN :
          \E r \in {ComputeGrads(ext, Running(den, runs), comp_covmat)} :
              /\ den' = r.den
              /\ runs' = r.runs
              /\ last' = Called("compute_grads", r)
    /\ ncalls' = ncalls + 1
    /\ UNCHANGED ext
    /\ UNCHANGED <<tvars, pvars>>

\* data.compute_deltaFs(comp_p_mat=...)
CallComputeDeltaFs ==
    /\ ext.on
    /\ ncalls < MaxDensityCalls
    /\ \E comp_p_mat \in BOOLEAN :
          \E r \in {ComputeDeltaFs(ext, Running(den, runs), comp_p_mat)} :
              /\ den' = r.den
              /\ runs' = r.runs
              /\ last' = Called("compute_deltaFs", r)
    /\ ncalls' = ncalls + 1
    /\ UNCHANGED ext
    /\ UNCHANGED <<tvars, pvars>>

\* data.compute_deltaFs_inv_cross_covariance()
CallComputeInvCrossCov ==
    /\ ext.on
    /\ ncalls < MaxDensityCalls
    /\ \E r \in {ComputeInvCrossCov(ext, Running(den, runs))} :
           /\ den' = r.den
           /\ runs' = r.runs
           /\ last' = Called("compute_deltaFs_inv_cross_covariance", r)
    /\ ncalls' = ncalls + 1
    /\ UNCHANGED ext
    /\ UNCHANGED <<tvars, pvars>>

\* data.compute_density_BMTI_reg(alpha, log_den, log_den_err, delta_F_err,
\* comp_log_den_err, mem_efficient)
CallDensityBMTIReg ==
    /\ ext.on
    /\ ncalls < MaxDensityCalls
    /\ \E alpha \in Alphas, prior \in Priors, delta_F_err \in DeltaFErrs,
          comp_log_den_err \in BOOLEAN, mem_efficient \in BOOLEAN :
          \E dense_solves \in SolveOutcomes(alpha, mem_efficient) :
          \E r \in {DensityBMTIReg(ext, Running(den, runs), alpha, prior[1], prior[2],
                                    delta_F_err, comp_log_den_err, mem_efficient,
                                    dense_solves)} :
              /\ den' = r.den
              /\ runs' = r.runs
              /\ last' = [ name |-> "compute_density_BMTI_reg", raised |-> r.raised,
                           sys |-> r.sys, reg |-> r.den, reg_raised |-> r.raised ]
    /\ ncalls' = ncalls + 1
    /\ UNCHANGED ext
    /\ UNCHANGED <<tvars, pvars>>

\* data.compute_density_BMTI(delta_F_err, comp_log_den_err, mem_efficient); the record
\* of the call keeps, beside its outcome, the outcome of compute_density_BMTI_reg
\* called on the same object with alpha = 1, ones as prior and the same three arguments
CallDensityBMTI ==
    /\ ext.on
    /\ ncalls < MaxDensityCalls
    /\ \E delta_F_err \in DeltaFErrs, comp_log_den_err \in BOOLEAN,
          mem_efficient \in BOOLEAN :
          \E dense_solves \in SolveOutcomes(ALPHA_ONE, mem_efficient) :
          \E r \in {DensityBMTI(ext, Running(den, runs), delta_F_err, comp_log_den_err,
                                 mem_efficient, dense_solves)},
             g \in {DensityBMTIReg(ext, Running(den, runs), 1000,
                                    Some(Array([i \in DOMAIN ext.coords |-> 1],
                                               Len(ext.coords))),
                                    Some(Array([i \in DOMAIN ext.coords |-> 1],
                                               Len(ext.coords))),
                                    delta_F_err, comp_log_den_err, mem_efficient,
                                    dense_solves)} :
              /\ den' = r.den
              /\ runs' = r.runs
              /\ last' = [ name |-> "compute_density_BMTI", raised |-> r.raised,
                           sys |-> r.sys, reg |-> g.den, reg_raised |-> g.raised ]
    /\ ncalls' = ncalls + 1
    /\ UNCHANGED ext
    /\ UNCHANGED <<tvars, pvars>>

\* no DensityAdvanced object in the runs of the trainer
DensityIdle ==
    /\ ext = NoWorld
    /\ den = NewDensity
    /\ runs = NoRuns
    /\ last = NoCall
    /\ ncalls = 0

\* no inner function is applied on its own in the runs of the trainer and of the
\* density pipeline
NoApplication == [name |-> "none"]

FunctionsIdle == fn = NoApplication

\* no trainer in the runs of the density pipeline
IdleCfg == [nA |-> 0]

TrainerIdle ==
    /\ cfg = IdleCfg
    /\ pc = "idle"
    /\ obj = NoObj
    /\ loc = NoLoc
    /\ error = NoError
    /\ hist = NoHist
    /\ calls = 0

\* a DensityAdvanced object just constructed on one of the data sets
InitDensity ==
    /\ ext \in PipelineWorlds
    /\ den = NewDensity
    /\ runs = NoRuns
    /\ last = NoCall
    /\ ncalls = 0
    /\ TrainerIdle
    /\ FunctionsIdle

NextDensity ==
    \/ CallComputeGrads
    \/ CallComputeDeltaFs
    \/ CallComputeInvCrossCov
    \/ CallDensityBMTIReg
    \/ CallDensityBMTI

SpecDensity == InitDensity /\ [][NextDensity]_vars

\* self._get_BMTI_reg_linear_system(delta_F_err, alpha)
CallLinearSystem ==
    /\ ext.on
    /\ ncalls < MaxDensityCalls
    /\ \E delta_F_err \in DeltaFErrs, alpha \in Alphas :
          \E r \in {BuildSystem(ext, Running(den, runs), delta_F_err, alpha)} :
              /\ den' = r.den
              /\ runs' = r.runs
              /\ last' = [ name |-> "_get_BMTI_reg_linear_system", raised |-> r.raised,
                           sys |-> r.sys, reg |-> r.den, reg_raised |-> r.raised ]
    /\ ncalls' = ncalls + 1
    /\ UNCHANGED ext
    /\ UNCHANGED <<tvars, pvars>>

\* an object on any of the data sets, where compute_density_BMTI_reg has reached the
\* call of the builder (line 317): the deltas are computed and the prior is set
InitSystem ==
    /\ ext \in Worlds
    /\ \E prior \in {<<Nothing, Nothing>>, GivenPrior} :
          \E m \in {PriorStage(ext, Running(NewDensity, NoRuns), prior[1], prior[2])} :
              /\ den = m.den
              /\ runs = m.runs
    /\ last = NoCall
    /\ ncalls = 0
    /\ TrainerIdle
    /\ FunctionsIdle

NextSystem == CallLinearSystem

SpecSystem == InitSystem /\ [][NextSystem]_vars

-----------------------------------------------------------------------------
(* The trainer's configurations and specifications *)

OptInt(S) == {None} \cup S

\* the arguments of the runs that train; space B has as many samples as space A, or one more
TrainConfigs ==
  { c \in
    [ nA : 2..MaxPoints,
      nB : 2..MaxPoints + 1,
      num_epochs : 0..MaxEpochs,
      batches_per_epoch : 1..MaxBatches,
      l1_strength : {0, 1},
      point_adapt_lambda : {FALSE},
      k_init : OptInt({1}),
      k_final : {1},
      lambda_init : OptInt({2}),
      lambda_final : {1},
      init_params : OptInt({300}),
      optimizer_name : {"sgd", "Adam", "rmsprop"},
      learning_rate : {100},
      learning_rate_decay : BOOLEAN,
      compute_error : BOOLEAN,
      num_points_rows : OptInt({2}) ] : c.nB \in {c.nA, c.nA + 1} }

\* the arguments of the runs that explore the smoothing configuration
CtorConfigs ==
  { c \in
    [ nA : 2..MaxPoints,
      nB : 2..MaxPoints + 1,
      num_epochs : {1},
      batches_per_epoch : 1..MaxBatches,
      l1_strength : {0},
      point_adapt_lambda : BOOLEAN,
      k_init : OptInt({1, 2, 100, 150}),
      k_final : OptInt({1, 2, 120}),
      lambda_init : OptInt({1, 2}),
      lambda_final : OptInt({1, 2}),
      init_params : {None},
      optimizer_name : {"sgd"},
      learning_rate : {100},
      learning_rate_decay : {FALSE},
      compute_error : BOOLEAN,
      num_points_rows : OptInt({2}) ] : c.nB \in {c.nA, c.nA + 1} }

Init ==
    /\ cfg \in TrainConfigs
    /\ pc = "new"
    /\ obj = NoObj
    /\ loc = NoLoc
    /\ error = NoError
    /\ hist = NoHist
    /\ calls = 0
    /\ DensityIdle
    /\ FunctionsIdle

Next ==
    \/ Construct
    \/ TrainBegin
    \/ EpochBegin
    \/ TrainStep
    \/ EpochEnd
    \/ TrainReturn

Spec == Init /\ [][Next]_vars

InitCtor ==
    /\ cfg \in CtorConfigs
    /\ pc = "new"
    /\ obj = NoObj
    /\ loc = NoLoc
    /\ error = NoError
    /\ hist = NoHist
    /\ calls = 0
    /\ DensityIdle
    /\ FunctionsIdle

SpecCtor == InitCtor /\ [][Next]_vars

-----------------------------------------------------------------------------
(* Claims about the trainer *)

\* the entries of the trajectories written so far by the running train() call
Written ==
    IF pc = "loop" THEN 0..loc.epoch_idx
    ELSE IF pc = "step" THEN 0..(loc.epoch_idx - 1)
    ELSE {}

\* C1: after train() on a trainer built with compute_error=True, entry e of the
\* returned error trajectory is the error recorded at epoch e, for every e in
\* 0..num_epochs (no entry holds an objective value).
C1_ErrorTrajectory ==
    (pc = "returned" /\ obj.compute_error) =>
        \A e \in 0..obj.num_epochs : loc.returned[3][e] = hist.err[e + 1]

\* C2: every trajectory train() returns has exactly num_epochs+1 entries (indices
\* 0..num_epochs), and entry 0 of the weight trajectory is the supplied initial
\* weights, or the default 0.1 when none was supplied.
C2_TrajectoryShape ==
    pc = "returned" =>
        /\ \A i \in 1..Len(loc.returned) :
              /\ DOMAIN loc.returned[i] = 0..cfg.num_epochs
              /\ Cardinality(DOMAIN loc.returned[i]) = cfg.num_epochs + 1
        /\ loc.returned[1][0] =
              (IF cfg.init_params # None THEN cfg.init_params ELSE 100)

\* C2 witness: a train() call over two epochs or more returned, with supplied initial
\* weights, and the weights of the last epoch differ from the initial ones
C2_Witness ==
    /\ pc = "returned"
    /\ cfg.init_params # None
    /\ cfg.num_epochs >= 2
    /\ loc.returned[1][cfg.num_epochs] # cfg.init_params

\* C3: the trajectory is append-only: a step of train() changes no component
\* (weights, objective value, objective error) of an entry already written.
C3_AppendOnly ==
    [][ \A e \in Written :
          /\ loc'.params_output[e] = loc.params_output[e]
          /\ loc'.imbs_output[e] = loc.imbs_output[e]
          /\ loc'.errors_output[e] = loc.errors_output[e] ]_vars

\* C4: compute_density_BMTI(delta_F_err, comp_log_den_err, mem_efficient) leaves the
\* object in the state compute_density_BMTI_reg leaves it in when called on the same
\* object with alpha = 1, a prior log-density of ones, a prior error of ones and the
\* same three arguments, and it raises what that call raises.
C4_BMTIIsRegWithAlphaOne ==
    last.name = "compute_density_BMTI"
    => (den = last.reg /\ last.raised = last.reg_raised)

\* compute_density_BMTI has solved the system on an object an earlier call had worked on
C4_Witness ==
    /\ ncalls = 2
    /\ last.name = "compute_density_BMTI"
    /\ last.raised = "none"
    /\ last.sys.alpha = ALPHA_ONE
    /\ den.log_den.kind = "solve"
    /\ den.log_den.A = last.sys.A
    /\ den = last.reg

\* C5: a batches_per_epoch that does not divide the number of rows makes the
\* constructor raise: no trainer object exists with such a value.
C5_BatchesDivideRows ==
    (pc # "new" /\ NRows(cfg) % cfg.batches_per_epoch # 0) =>
        (pc = "raised" /\ ~obj.built)

\* both k_init and k_final are given
KSet(c) == c.k_init # None /\ c.k_final # None

\* both lambda_init and lambda_final are given
LSet(c) == c.lambda_init # None /\ c.lambda_final # None

\* C6 (as stated): with k_init, k_final, lambda_init and lambda_final all given, the
\* constructor raises.
C6_MutuallyExclusive ==
    (pc # "new" /\ KSet(cfg) /\ LSet(cfg)) => (pc = "raised" /\ ~obj.built)

\* C6 (amended): the variants are not validated for exclusivity, they are selected by
\* priority.  With all four of k_init, k_final, lambda_init, lambda_final given, the
\* constructor succeeds whenever its other checks pass and lambda_init/lambda_final
\* are ignored: the point-adaptive variant is selected if point_adapt_lambda is set
\* and the adaptive-global one otherwise.  The fixed-global variant is selected only
\* with point_adapt_lambda off and k_init or k_final None.
C6_SelectedByPriority ==
    /\ (pc # "new" /\ KSet(cfg) /\ LSet(cfg)
          /\ cfg.nA = cfg.nB
          /\ ~(cfg.compute_error /\ cfg.num_points_rows # None)
          /\ NRows(cfg) >= cfg.batches_per_epoch
          /\ (IF cfg.k_init > 100 THEN 100 ELSE cfg.k_init) >= cfg.k_final
          /\ cfg.lambda_init >= cfg.lambda_final)
       => obj.built
    /\ (obj.built /\ KSet(cfg) /\ LSet(cfg))
       => obj.lambda_method = (IF cfg.point_adapt_lambda THEN "point_adapt" ELSE "adapt")
    /\ (obj.built /\ obj.lambda_method = "decay")
       => (~cfg.point_adapt_lambda /\ ~KSet(cfg) /\ LSet(cfg))

\* C6 witness: a trainer was built with both sets given and point_adapt_lambda off
C6_Witness ==
    /\ obj.built
    /\ KSet(cfg) /\ LSet(cfg)
    /\ ~cfg.point_adapt_lambda
    /\ obj.lambda_method = "adapt"

\* C7 (as stated): k_init < k_final is rejected, lambda_init < lambda_final is
\* rejected, and a configuration with k_init >= k_final and lambda_init >=
\* lambda_final is rejected by neither of the two checks.
C7_BoundsValidated ==
    pc # "new" =>
        /\ (KSet(cfg) /\ cfg.k_init < cfg.k_final) => (pc = "raised" /\ ~obj.built)
        /\ (LSet(cfg) /\ cfg.lambda_init < cfg.lambda_final)
              => (pc = "raised" /\ ~obj.built)
        /\ (KSet(cfg) /\ cfg.k_init >= cfg.k_final) => error.at # "init:k"
        /\ (LSet(cfg) /\ cfg.lambda_init >= cfg.lambda_final)
              => error.at # "init:lambda"

\* C7 (amended): the k check compares k_init capped at 100 with k_final.  A
\* configuration with min(k_init, 100) < k_final (so also one with
\* k_init >= k_final > 100) or with lambda_init < lambda_final is rejected at
\* construction, and one with min(k_init, 100) >= k_final and lambda_init >=
\* lambda_final is rejected by neither of the two checks.
C7_CappedBoundsValidated ==
    pc # "new" =>
        /\ (KSet(cfg) /\ (IF cfg.k_init > 100 THEN 100 ELSE cfg.k_init) < cfg.k_final)
              => (pc = "raised" /\ ~obj.built)
        /\ (LSet(cfg) /\ cfg.lambda_init < cfg.lambda_final)
              => (pc = "raised" /\ ~obj.built)
        /\ (KSet(cfg) /\ (IF cfg.k_init > 100 THEN 100 ELSE cfg.k_init) >= cfg.k_final)
              => error.at # "init:k"
        /\ (LSet(cfg) /\ cfg.lambda_init >= cfg.lambda_final)
              => error.at # "init:lambda"

\* C7 witness: k_init = 150 >= k_final = 120 was rejected by the k check, and this
\* is the only check that configuration fails
C7_Witness ==
    /\ pc = "raised"
    /\ cfg.k_init = 150 /\ cfg.k_final = 120
    /\ error = Err("AssertionError", "init:k")

\* C8: a call that fails with the ValueError of an unknown delta_F_err has run no
\* stage of the pipeline and has left every attribute of the object, log_den and
\* log_den_err included, as it was.
C8_InvalidModeBeforeNumericWork ==
    [][(ncalls' # ncalls /\ last'.raised = "ValueError") => (den' = den /\ runs' = runs)]_vars

\* C9: an optimizer name outside {sgd, adam, adamw} (case-insensitively), in a
\* configuration that is valid otherwise, makes the trainer fail with an error that
\* names the optimizer, before the target rank matrix is computed.
C9_UnknownOptimizerEager ==
    (pc # "new" /\ CtorError(cfg) = NoError
        /\ Lower(cfg.optimizer_name) \notin {"sgd", "adam", "adamw"})
    => (pc = "raised" /\ error.names_optimizer /\ ~obj.ranks_B)

\* C10: the matrix A the linear-system builder returns is symmetric, for every alpha,
\* every weighting mode and every directed edge list.
C10_SystemSymmetric ==
    last.sys.built => \A i, j \in Points : last.sys.A[i][j] = last.sys.A[j][i]

\* a system built with alpha < 1 from an edge list that holds (i, j) but not (j, i)
C10_Witness ==
    /\ last.name = "_get_BMTI_reg_linear_system"
    /\ last.sys.built
    /\ last.sys.alpha # ALPHA_ONE
    /\ \E i, j \in Points :
          /\ EdgesAt(den, i, j) # {}
          /\ EdgesAt(den, j, i) = {}
          /\ last.sys.A[i][j] # 0

-----------------------------------------------------------------------------
(* The linear system: its diagonal and its right-hand side *)

\* |x|
Abs(x) == IF x < 0 THEN 0 - x ELSE x

\* the sum of the off-diagonal entries of row i of A, and of their magnitudes
OffDiagSum(A, i) == SumOver(A[i], Points \ {i})

OffDiagAbsSum(A, i) == SumOver([j \in Points |-> Abs(A[i][j])], Points \ {i})

\* C11: for alpha < 1 every off-diagonal entry of A is non-positive, the diagonal is
\* minus the sum of the off-diagonal entries of its row plus (1 - alpha) / err[i]^2
\* (in the units of A), and A is diagonally dominant.
C11_DiagonallyDominant ==
    (last.sys.built /\ last.sys.alpha < ALPHA_ONE)
    => \A i \in Points :
          /\ \A j \in Points \ {i} : last.sys.A[i][j] <= 0
          /\ last.sys.A[i][i]
                = (0 - OffDiagSum(last.sys.A, i))
                    + (1000 - last.sys.alpha) * 1000 * Precision4(den.log_den_err.vec[i])
          /\ last.sys.A[i][i] >= OffDiagAbsSum(last.sys.A, i)

\* a system built with alpha < 1 in which some row has an edge weight off the diagonal
C11_Witness ==
    /\ last.name = "_get_BMTI_reg_linear_system"
    /\ last.sys.built
    /\ last.sys.alpha < ALPHA_ONE
    /\ \E i \in Points : OffDiagAbsSum(last.sys.A, i) > 0

\* the positions in nind_list of the edges (i, j) leaving i and of the edges (j, i)
\* entering i
Leaving(d, i) == {n \in 1..Len(d.nind_list.v) : d.nind_list.v[n][1] = i}

Entering(d, i) == {n \in 1..Len(d.nind_list.v) : d.nind_list.v[n][2] = i}

\* w_e * Fij for the edge at each position, with the weights of the mode of the system
WeightedFij(d, sys) ==
    Let(Tmpvec(d, sys.delta_F_err), LAMBDA tmpvec :
        Array([n \in 1..Len(d.nind_list.v) |-> d.Fij_array.v[n] * tmpvec[n]],
              Len(d.nind_list.v)))

\* (1 - alpha) * log_den[i] / log_den_err[i]^2, in the units of b
PriorTerm(d, sys, i) ==
    (1000 - sys.alpha) * 1000 * d.log_den.vec[i] * Precision4(d.log_den_err.vec[i])

\* C12 as stated: b[i] is alpha times (the weighted Fij of the edges leaving i minus
\* the weighted Fji of the edges entering i) plus the prior term.
C12_RhsLeavingMinusEntering ==
    last.sys.built
    => \A i \in Points :
          last.sys.b[i]
            = 4 * last.sys.alpha
                * (SumOver(WeightedFij(den, last.sys), Leaving(den, i))
                     - SumOver(WeightedFij(den, last.sys), Entering(den, i)))
              + PriorTerm(den, last.sys, i)

\* C12: b[i] is alpha times (the weighted Fji of the edges entering i minus the
\* weighted Fij of the edges leaving i) plus the prior term
\* (1 - alpha) * log_den[i] / log_den_err[i]^2.
C12_RhsEnteringMinusLeaving ==
    last.sys.built
    => \A i \in Points :
          last.sys.b[i]
            = 4 * last.sys.alpha
                * (SumOver(WeightedFij(den, last.sys), Entering(den, i))
                     - SumOver(WeightedFij(den, last.sys), Leaving(den, i)))
              + PriorTerm(den, last.sys, i)

\* a system built on a graph where, at some point, what enters differs from what leaves
C12_Witness ==
    /\ last.name = "_get_BMTI_reg_linear_system"
    /\ last.sys.built
    /\ \E i \in Points :
          /\ Leaving(den, i) # {}
          /\ Entering(den, i) # {}
          /\ SumOver(WeightedFij(den, last.sys), Entering(den, i))
                # SumOver(WeightedFij(den, last.sys), Leaving(den, i))

-----------------------------------------------------------------------------
(* The density pipeline: the caches *)

\* the entry points that have the gradients as a prerequisite, and those that have
\* the pairwise deltas as one
NeedsGrads ==
    { "compute_deltaFs", "compute_deltaFs_inv_cross_covariance",
      "compute_density_BMTI_reg", "compute_density_BMTI" }

NeedsDeltaFs ==
    {"compute_deltaFs_inv_cross_covariance", "compute_density_BMTI_reg", "compute_density_BMTI"}

-----------------------------------------------------------------------------
(* DiffImbalance: the inner functions, applied on their own *)

\* jax.random.choice(key, arange(n), shape=(m,), replace=False): the samples of m
\* distinct indices, in the order drawn
Samples(n, m) == {s \in [1..m -> 1..n] : \A a, b \in 1..m : a # b => s[a] # s[b]}

RECURSIVE DeleteFrom(_, _, _)
\* jnp.delete(arange(n), rows): the indices from..n that are not in rows, in order
DeleteFrom(from, n, rows) ==
    IF from > n THEN <<>>
    ELSE (IF \E a \in DOMAIN rows : rows[a] = from THEN <<>> ELSE <<from>>)
           \o DeleteFrom(from + 1, n, rows)

\* indices_columns (lines 187, 194-195, 199) for the rows drawn
IndicesColumns(p) ==
    IF p.compute_error THEN DeleteFrom(1, Len(p.data_B), p.indices_rows)
    ELSE IF p.num_points_rows # None
    THEN Array(p.indices_rows, p.num_points_rows)
           \o DeleteFrom(1, Len(p.data_B), p.indices_rows)
    ELSE Array(p.indices_rows, Len(p.data_B))

\* the squared distance of two points of a space with one feature (lines 299-304,
\* periods None)
Dist2(x, y) == (x - y) * (x - y)

\* dist2_matrix.argsort(axis=1).argsort(axis=1) at (row, column c): the position of
\* column c in the stable sort of the row, i.e. how many columns are nearer, or as
\* near and earlier
RankAt(x, columns, c) ==
    Cardinality({b \in 1..Len(columns) :
                    \/ Dist2(x, columns[b]) < Dist2(x, columns[c])
                    \/ Dist2(x, columns[b]) = Dist2(x, columns[c]) /\ b < c})

\* _compute_rank_matrix_B(batch_rows, batch_columns, None) (lines 299-308)
ComputeRankMatrixB(batch_rows, batch_columns, compute_error) ==
    Array([r \in 1..Len(batch_rows) |->
              Array([c \in 1..Len(batch_columns) |->
                        RankAt(batch_rows[r], batch_columns, c)
                          + (IF compute_error THEN 1 ELSE 0)],
                    Len(batch_columns))],
          Len(batch_rows))

\* self.ranks_B (lines 202-205, 268-272) for the data set and the rows of p
RanksB(p) ==
    ComputeRankMatrixB(Array([r \in DOMAIN p.indices_rows |-> p.data_B[p.indices_rows[r]]],
                             Len(p.indices_rows)),
                       Array([c \in DOMAIN IndicesColumns(p) |->
                                 p.data_B[IndicesColumns(p)[c]]],
                             Len(IndicesColumns(p))),
                       p.compute_error)

\* the rows the constructor draws from n points (lines 180-201)
RowsDrawn(n, compute_error, num_points_rows) ==
    IF compute_error THEN {Array(s, n \div 2) : s \in Samples(n, n \div 2)}
    ELSE IF num_points_rows # None
    THEN {Array(s, num_points_rows) : s \in Samples(n, num_points_rows)}
    ELSE {Array([i \in 1..n |-> i], n)}

\* the target data sets (one feature, coordinates 0..MaxCoord, coincident points
\* included), the mode of the constructor (compute_error, num_points_rows) and the
\* rows it draws
RankInputs ==
    UNION { { [ data_B |-> Array(x, n), compute_error |-> mode[1],
                num_points_rows |-> mode[2], indices_rows |-> rows ] :
                x \in [1..n -> 0..MaxCoord], rows \in RowsDrawn(n, mode[1], mode[2]) } :
            n \in 2..MaxPoints, mode \in {<<FALSE, None>>, <<FALSE, 2>>, <<TRUE, None>>} }

\* self.ranks_B = self._compute_rank_matrix_B(...)
ApplyComputeRankMatrixB ==
    /\ fn = NoApplication
    /\ \E p \in RankInputs :
          fn' = [name |-> "_compute_rank_matrix_B", in |-> p, out |-> RanksB(p)]
    /\ UNCHANGED <<tvars, dvars>>

\* C14: without compute_error the rank of every row point with respect to itself
\* (row r is column r of the rank matrix) is 0, coincident target points included;
\* with compute_error the smallest rank of every row is 1.
C14_SelfRankZero ==
    fn.name = "_compute_rank_matrix_B"
    => \A r \in DOMAIN fn.out :
          IF fn.in.compute_error
          THEN /\ \A c \in DOMAIN fn.out[r] : fn.out[r][c] >= 1
               /\ \E c \in DOMAIN fn.out[r] : fn.out[r][c] = 1
          ELSE fn.out[r][r] = 0

\* the inner functions applied to the inputs drawn
\* the weights, learning rates (thousandths) and L1 strengths the L1 step is applied to
L1Inputs ==
    [ p : {50 * w : w \in (0 - MaxWeight)..MaxWeight},
      current_lr : {0, 50, 100},
      l1_strength : {0, 1, 2} ]

\* lines 477-484 of _train_step: the L1 step on one weight left by apply_gradients
ApplyL1Step ==
    /\ fn = NoApplication
    /\ \E a \in L1Inputs :
          fn' = [ name |-> "l1_step", in |-> a,
                  out |-> SoftThreshold(a.p, a.current_lr * a.l1_strength) ]
    /\ UNCHANGED <<tvars, dvars>>

\* jnp.rint of a value given in thousandths: the nearest integer, a tie going to the
\* even one
Rint(v) ==
    IF v % 1000 > 500 \/ (v % 1000 = 500 /\ (v \div 1000) % 2 = 1)
    THEN (v \div 1000) + 1
    ELSE v \div 1000

\* current_k (lines 342-346) at the step p.step of a training of p.total_steps steps
CurrentK(p) ==
    Rint(CosineDecayFunc([num_epochs |-> p.total_steps, batches_per_epoch |-> 1],
                         1000 * p.k_init, 1000 * p.k_final, p.step))

\* Row r of dist2_matrix_A (lines 408-420) without compute_error, for one feature of
\* weight 1 and a batch of all the points: the distance of a point with itself is set
\* to +1e10, written here as 10^8 so that sums over the points stay within TLC's
\* integers
Dist2RowA(p, r) ==
    [c \in 1..Len(p.data_A) |->
        IF c = r THEN 100000000 ELSE Dist2(p.data_A[r], p.data_A[c])]

\* -jax.lax.top_k(-row, k_max_allowed)[0][q] (lines 348-349): the entry at the 0-based
\* position q of the k_max_allowed smallest distances in ascending order; jax clamps a
\* position past the end to the last one
SmallestDist2At(row, k_max_allowed, q) ==
    row[CHOOSE c \in DOMAIN row :
            Cardinality({b \in DOMAIN row :
                            \/ row[b] < row[c]
                            \/ row[b] = row[c] /\ b < c}) = Min(q, k_max_allowed - 1)]

\* _compute_point_adapt_lambdas (lines 342-350): 10 * current_lambdas; k_max_allowed is
\* max_rank + 1 = the number of points (line 225, at most 100 points)
ComputePointAdaptLambdas(p) ==
    Array([r \in 1..Len(p.data_A) |->
              SmallestDist2At(Dist2RowA(p, r), Len(p.data_A), CurrentK(p))],
          Len(p.data_A))

\* _compute_adapt_lambda (lines 365-368): the mean of the per-point values for every
\* point, as 10 * N * current_lambda
ComputeAdaptLambda(p) ==
    Let(ComputePointAdaptLambdas(p), LAMBDA l :
        Array([r \in DOMAIN l |-> SumOver(l, DOMAIN l)], Len(l)))

\* self.lambda_method (lines 277-281, 421-423)
LambdaOf(p) ==
    IF p.point_adapt_lambda THEN ComputePointAdaptLambdas(p) ELSE ComputeAdaptLambda(p)

\* the source data sets (one feature, coordinates 0..MaxCoord), the neighbour orders
\* 1 <= k_final <= k_init <= N - 1 at most one apart, and the steps of a training of
\* one or of three steps
LambdaInputs ==
    UNION { [ data_A : {Array(x, n) : x \in [1..n -> 0..MaxCoord]},
              point_adapt_lambda : BOOLEAN,
              k_init : {k[1]}, k_final : {k[2]},
              total_steps : {s[1]}, step : {s[2]} ] :
            n \in 2..MaxPoints,
            k \in {kk \in (1..MaxPoints) \X (1..MaxPoints) :
                      kk[2] <= kk[1] /\ kk[1] <= kk[2] + 1},
            s \in {<<1, 0>>, <<3, 0>>, <<3, 1>>, <<3, 2>>} }

\* lambdas = self.lambda_method(dist2_matrix=dist2_matrix_A, step=step) (lines 421-423)
ApplyLambdaMethod ==
    /\ fn = NoApplication
    /\ \E p \in LambdaInputs :
          /\ p.k_init <= Len(p.data_A) - 1
          /\ fn' = [name |-> "lambda_method", in |-> p, out |-> LambdaOf(p)]
    /\ UNCHANGED <<tvars, dvars>>

InitFunctions ==
    /\ fn = NoApplication
    /\ TrainerIdle
    /\ DensityIdle

NextFunctions ==
    \/ ApplyComputeRankMatrixB
    \/ ApplyL1Step
    \/ ApplyLambdaMethod

SpecFunctions == InitFunctions /\ [][NextFunctions]_vars

-----------------------------------------------------------------------------
(* DiffImbalance: the smoothing schedule and the L1 step *)

\* _compute_lambda_decay (lines 381-384): the lambda, in thousandths, that an evaluation
\* of the objective at the given step uses when lambda_init and lambda_final are given
ComputeLambdaDecay(o, step) ==
    CosineDecayFunc(o, 1000 * o.lambda_init, 1000 * o.lambda_final, step)

\* the step the last _train_step of a finished train() evaluated its loss at (line 463:
\* step=state.step, read before apply_gradients increments it)
LastUpdateStep == loc.imb.step

C16_L1StepShrinks ==
    fn.name = "l1_step" =>
        LET p == fn.in.p
            t == fn.in.current_lr * fn.in.l1_strength
            q == fn.out
        IN  /\ (p > 0 => q = Max(0, p - t))
            /\ (p < 0 => q = Min(0, p + t))
            /\ (p = 0 => q = 0)
            /\ p * q >= 0
            /\ Abs(q) <= Abs(p)

\* a negative weight smaller in magnitude than t has been clipped to zero
C16_Witness ==
    /\ fn.name = "l1_step"
    /\ fn.in.p < 0
    /\ fn.in.current_lr * fn.in.l1_strength > 0 - fn.in.p
    /\ fn.out = 0

-----------------------------------------------------------------------------
(* DensityAdvanced: compute_grads on neighbourhoods of fewer than two points *)

\* the data sets of PipelineWorlds with every assignment of a kstar in 0..2 to the points
LowKstarWorlds ==
    { [w EXCEPT !.kstar = Array(k, NumPoints)] : w \in PipelineWorlds,
                                                 k \in [Points -> 0..2] }

InitGrads ==
    /\ ext \in LowKstarWorlds
    /\ den = NewDensity
    /\ runs = NoRuns
    /\ last = NoCall
    /\ ncalls = 0
    /\ TrainerIdle
    /\ FunctionsIdle

NextGrads ==
    \/ CallComputeGrads

SpecGrads == InitGrads /\ [][NextGrads]_vars

\* C17 (as stated): when some point has kstar <= 1, compute_grads raises an error and
\* stores no gradient variances.
C17_LowKstarRaises ==
    (last.name = "compute_grads" /\ \E i \in Points : ext.kstar[i] <= 1) =>
        /\ last.raised # "none"
        /\ ~den.grads_var.has

-----------------------------------------------------------------------------
(* DiffImbalance.train called again on the same object *)

\* the weights the first _train_step of the running train() evaluated its loss at
\* (lines 460-467 with state.step = 0)
FirstUpdateParams == loc.imb.params

\* C18 (as stated): every train(), a second one on the same object included, starts
\* its first optimizer update from the initial weights, the weights it records as
\* entry 0 of the trajectory.
C18_TrainStartsFromInitialWeights ==
    (pc = "step" /\ loc.epoch_idx = 1 /\ loc.imb.kind = "imb" /\ loc.imb.step = 0) =>
        /\ FirstUpdateParams = obj.init_params
        /\ FirstUpdateParams = loc.params_output[0]

-----------------------------------------------------------------------------
(* compute_density_BMTI on a square lattice *)

\* the neighbour lists of the 2 x 2 square lattice: every point lists its two lattice
\* neighbours, so every side of the square is an edge in both directions
LatticeEdges ==
    {<<1, 2>>, <<2, 1>>, <<2, 3>>, <<3, 2>>, <<3, 4>>, <<4, 3>>, <<4, 1>>, <<1, 4>>}

\* the true log-density a * x^2 + b * x at the coordinate x
TrueLogDen(a, b, x) == a * x * x + b * x

\* The lattice with the points at the coordinates 0, 1, 2, 3 and the true log-density
\* a * x^2 + b * x: the estimated gradients are its derivative 2 * a * x + b, for which
\* 0.5 * (g_i + g_j) * (x_j - x_i) is exactly the difference of the log-density
\* between j and i.  v0 varies the gradient variances.
LatticeWorld(a, b, v0) ==
    [ on |-> TRUE,
      nind_list |-> SortedEdges(LatticeEdges),
      coords |-> Array([i \in 1..4 |-> i - 1], 4),
      kstar |-> Array([i \in 1..4 |-> 2 + (i % 2)], 4),
      grads0 |-> Array([i \in 1..4 |-> 2 * a * (i - 1) + b], 4),
      var0 |-> Array([i \in 1..4 |-> 2 * (1 + ((i + v0) % 2))], 4),
      pearson2 |-> Array([n \in 1..8 |-> n % 2], 8),
      inv_cov |-> Array([n \in 1..8 |-> 500 * (1 + (n % 3))], 8),
      knn_den |-> Array([i \in 1..4 |-> i + 1], 4),
      knn_err |-> Array([i \in 1..4 |-> 1 + (i % 2)], 4),
      truth |-> Array([i \in 1..4 |-> TrueLogDen(a, b, i - 1)], 4) ]

LatticeWorlds == {LatticeWorld(a, b, v0) : a \in {0, 1}, b \in {-2, 0, 2}, v0 \in {1, 2}}

InitLattice ==
    /\ ext \in LatticeWorlds
    /\ den = NewDensity
    /\ runs = NoRuns
    /\ last = NoCall
    /\ ncalls = 0
    /\ TrainerIdle
    /\ FunctionsIdle

NextLattice ==
    \/ CallDensityBMTI

SpecLattice == InitLattice /\ [][NextLattice]_vars

\* A x = b
Solves(A, b, x) ==
    \A i \in DOMAIN A : SumOver([j \in DOMAIN A |-> A[i][j] * x[j]], DOMAIN A) = b[i]

\* the vectors around the true log-density: every point shifted by at most MaxOffset
Offsets == [1..4 -> (0 - MaxOffset)..MaxOffset]

\* C19: compute_density_BMTI (alpha = 1) on the 4-point square lattice whose deltas are
\* exactly those of the true log-density x* solves a system (A, b) that x* satisfies
\* and whose solutions are exactly x* plus a constant, so a solution centred to zero
\* mean is x* centred to zero mean.
C19_LatticeRecoversTruth ==
    (last.name = "compute_density_BMTI" /\ last.raised = "none") =>
        /\ last.sys.alpha = ALPHA_ONE
        /\ den.log_den.kind = "solve"
        /\ den.log_den.A = last.sys.A
        /\ den.log_den.b = last.sys.b
        /\ Solves(last.sys.A, last.sys.b, ext.truth)
        /\ \A o \in Offsets :
              Solves(last.sys.A, last.sys.b, [i \in 1..4 |-> ext.truth[i] + o[i]])
                <=> \A i \in 1..4 : o[i] = o[1]

\* the pipeline has returned on a lattice whose true log-density is not constant
C19_Witness ==
    /\ last.name = "compute_density_BMTI"
    /\ last.raised = "none"
    /\ last.sys.built
    /\ den.log_den.kind = "solve"
    /\ \E i \in 1..4 : ext.truth[i] # ext.truth[1]

-----------------------------------------------------------------------------
(* DiffImbalance: the adaptive smoothing parameter *)

\* the k-th smallest squared distance of the point r to another point of the data set x
KthNearestDist2(x, r, k) ==
    Dist2(x[r], x[CHOOSE c \in DOMAIN x \ {r} :
                    Cardinality({b \in DOMAIN x \ {r} :
                                    \/ Dist2(x[r], x[b]) < Dist2(x[r], x[c])
                                    \/ Dist2(x[r], x[b]) = Dist2(x[r], x[c]) /\ b < c})
                      = k - 1])

\* C20 (as stated): under the adaptive policies the lambda of every row point is 0.1
\* times its k-th smallest squared distance to another point, k the cosine-interpolated
\* integer between k_init and k_final at the step and k = 1 the nearest neighbour; the
\* adaptive-global policy gives every point the mean of these values.
C20_LambdaIsKthNeighbour ==
    fn.name = "lambda_method" =>
        LET x == fn.in.data_A
            k == CurrentK(fn.in)
        IN  \A r \in DOMAIN x :
               IF fn.in.point_adapt_lambda
               THEN fn.out[r] = KthNearestDist2(x, r, k)
               ELSE fn.out[r] = SumOver([q \in DOMAIN x |-> KthNearestDist2(x, q, k)],
                                        DOMAIN x)

-----------------------------------------------------------------------------
(* DiffImbalance: what a train step returns *)

\* the weights the objective recorded for the epoch e was evaluated at (lines 460-470:
\* the loss of _train_step is taken at state.params before apply_gradients)
ObjectiveWeights(e) == loc.imbs_output[e].params

\* C21 (as stated): the objective recorded for an epoch e >= 1 is the objective at the
\* weights after the optimizer step, the weights recorded for the epoch e.
C21_ObjectiveAtRecordedWeights ==
    (pc \in {"loop", "returned"} /\ loc.epoch_idx >= 1) =>
        \A e \in 1..loc.epoch_idx :
            /\ loc.imbs_output[e].kind = "imb"
            /\ ObjectiveWeights(e) = loc.params_output[e]

-----------------------------------------------------------------------------
(* The builder and the inverse cross-covariance *)

\* C22 (as stated): the builder computes the inverse cross-covariance only if it is
\* missing; when inv_deltaFs_cov is present from an earlier call, building the system
\* does not run compute_deltaFs_inv_cross_covariance again.
C22_BuilderReusesInvCov ==
    [][ (last'.name = "_get_BMTI_reg_linear_system" /\ ncalls' # ncalls
            /\ den.inv_deltaFs_cov.has)
          => /\ runs'.inv_cov = runs.inv_cov
             /\ den'.inv_deltaFs_cov = den.inv_deltaFs_cov ]_vars

-----------------------------------------------------------------------------
(* DiffImbalance._train_epoch: the minibatches *)

\* some of the orders jax.random.permutation(key, n) can return (line 557): the
\* identity, the reversal and a rotation of the rows 1..n
Shuffles(n) ==
    { Array([i \in 1..n |-> i], n),
      Array([i \in 1..n |-> n + 1 - i], n),
      Array([i \in 1..n |-> (i % n) + 1], n) }

\* sections that each start one row before the end of the previous one
Split_Overlapping(ary, sections) ==
    Array([b \in 1..sections |->
              SubSeq(ary, Max(1, (b - 1) * (Len(ary) \div sections)),
                     b * (Len(ary) \div sections))],
          sections)

\* jnp.split(ary, sections) (lines 556-558) for a length that sections divides: the
\* consecutive sections of Len(ary) / sections entries
Split(ary, sections) ==
    Array([b \in 1..sections |->
              SubSeq(ary, (b - 1) * (Len(ary) \div sections) + 1,
                     b * (Len(ary) \div sections))],
          sections)

\* all_batch_indices (lines 556-558) for each order the shuffle can return
AllBatchIndices(o) == {Split(perm, o.batches_per_epoch) : perm \in Shuffles(o.nrows)}

\* C23: in every epoch the shuffled rows are split into batches_per_epoch minibatches
\* of equal size, every row in exactly one of them; one update is made per minibatch
\* and the step counter grows by one per update, so it is num_epochs *
\* batches_per_epoch when train() returns.
C23_OneUpdatePerMinibatch ==
    /\ pc = "step" =>
          /\ \A batches \in AllBatchIndices(obj) :
                /\ Len(batches) = obj.batches_per_epoch
                /\ \A b \in DOMAIN batches :
                      Len(batches[b]) * obj.batches_per_epoch = obj.nrows
                /\ \A row \in 1..obj.nrows :
                      Cardinality({<<b, i>> \in (DOMAIN batches) \X (1..obj.nrows) :
                                      i <= Len(batches[b]) /\ batches[b][i] = row}) = 1
          /\ obj.state.step = (loc.epoch_idx - 1) * obj.batches_per_epoch
                                + (obj.batches_per_epoch - loc.batch_left)
    /\ pc = "returned" => obj.state.step = obj.num_epochs * obj.batches_per_epoch

\* a training of two epochs of two minibatches of two rows has returned after four
\* updates
C23_Witness ==
    /\ pc = "returned"
    /\ obj.num_epochs = 2
    /\ obj.batches_per_epoch = 2
    /\ obj.nrows = 4
    /\ obj.state.step = 4

-----------------------------------------------------------------------------
(* DiffImbalance: the neighbour order against the number of distances kept *)

\* current_k (lines 342-346) at a step of train() on the object o
CurrentKOf(o, step) ==
    CurrentK([ total_steps |-> TotalSteps(o), k_init |-> o.k_init,
               k_final |-> o.k_final, step |-> step ])

\* C24 (as stated): under the adaptive policies, for every accepted configuration and
\* at every training step, current_k is a valid position of the array of the
\* k_max_allowed smallest distances: 0 <= current_k < k_max_allowed.
C24_CurrentKInRange ==
    (obj.built /\ obj.lambda_method \in {"adapt", "point_adapt"}) =>
        \A step \in 0..(TotalSteps(obj) - 1) :
            /\ 0 <= CurrentKOf(obj, step)
            /\ CurrentKOf(obj, step) < obj.k_max_allowed

-----------------------------------------------------------------------------
(* DiffImbalance: a trainer with no smoothing policy *)

\* C25 (as stated): every trainer whose construction succeeds has a smoothing policy
\* selected, so train() never evaluates the objective with none; a configuration with
\* k_init or k_final unset, lambda_init or lambda_final unset and point_adapt_lambda
\* off does not construct.
C25_PolicyAlwaysSelected ==
    /\ obj.built => obj.lambda_method \in {"point_adapt", "adapt", "decay"}
    /\ error.at # "train:lambda_method"
    /\ (pc # "new" /\ ~cfg.point_adapt_lambda /\ ~KSet(cfg) /\ ~LSet(cfg)) => ~obj.built

====
